---- MODULE Spec2Model ----
(***************************************************************************)
(* HttpCallImpl (src/envoy/http/service_control/http_call.cc): one logical *)
(* service-control call realised by sequential physical attempts with      *)
(* retry, per-attempt bearer token, per-attempt tracing span, external     *)
(* cancellation and deferred self-deletion.                                *)
(*                                                                         *)
(* The object's fields are the variables with a trailing underscore.  The  *)
(* collaborators are modelled by what they record: the async client by the *)
(* messages it was sent, the requests it still has outstanding and the     *)
(* handles it was told to cancel; the tracer by the spans it spawned; the   *)
(* caller by the on_done invocations it received; the dispatcher by the    *)
(* number of deferred deletions queued.  log is the order in which one     *)
(* handler performs its effects.                                           *)
(*                                                                         *)
(* Every handler runs to completion on the dispatcher thread, so a handler *)
(* is one action.  The handlers are written as operators from a state      *)
(* record to a state record, composed the way the C++ methods call each    *)
(* other.                                                                  *)
(***************************************************************************)
EXTENDS Integers, Sequences, FiniteSets, TLC

\* ------------------------------------------------------------------ bounds
\* Largest retry count a call is constructed with.
MaxRetries == 2
\* Most cancel() calls the caller makes on one instance.
MaxCancels == 2

\* ------------------------------------------------------- program constants
\* uint32_t fields are held by their two's-complement reading in 32 bits
\* (the integers of the checker are 32 bits wide): x - 1 at 0 is -1, which
\* stands for 4294967295, and the unsigned test x <= 0 is x = 0.
UnsignedLeqZero(x) == x = 0
HttpOK == 200
ClientErrorLow == 400
ClientErrorHigh == 500
KApplicationProto == "application/x-protobuf"

\* Status values passed to on_done_.
StatusOK == [code |-> "OK", message |-> ""]
StatusFailedCall == [code |-> "INTERNAL", message |-> "Failed to call service control"]
StatusMissingToken ==
    [code |-> "INTERNAL", message |-> "Missing access token for service control call"]

\* ------------------------------------------------------------------ inputs
\* Values token_fn_ may return ("" is the missing credential).
Tokens == {"", "t1", "t2"}
\* Response status codes: OK, the edges of the client-error band, its
\* neighbours, and a server error.
Statuses == {200, 399, 400, 499, 500}
\* response->body(): absent (<<>>) or a buffer holding the given bytes.
Bodies == {<<>>, <<"b1">>, <<"b2">>}
Responses == [status : Statuses, body : Bodies]
\* Http::AsyncClient::FailureReason: Reset, and whatever else the default
\* branch of the switch receives.
Reasons == {"Reset", "Other"}
\* The serialized request message.
RequestBodies == {"", "req"}

NullRequest == 0
NullSpan == 0
TraceOperationName == "op"
Host == "host"
Path == "/path"
Cluster == "cluster"
Uri == "host/path"

VARIABLES
    retries_,        \* remaining retry times (uint32_t)
    request_count_,  \* sent request count (uint32_t)
    request_,        \* Http::AsyncClient::Request*, NullRequest or a handle
    request_span_,   \* Tracing::SpanPtr, NullSpan or an index into spans
    str_body_,       \* the serialized request body
    max_retries,     \* the retries argument of the constructor
    sends,           \* messages handed to AsyncClient::send, in order
    outstanding,     \* handles the async client has not completed or cancelled
    cancels,         \* handles on which Request::cancel() was invoked
    spans,           \* spans spawned from parent_span_: name, tags, finishSpan count
    done,            \* on_done_ invocations: status and body
    deferred,        \* deferredDelete calls queued on the dispatcher
    destroyed,       \* the dispatcher has deleted the instance
    log              \* effects in program order

vars == <<retries_, request_count_, request_, request_span_, str_body_,
          max_retries, sends, outstanding, cancels, spans, done, deferred,
          destroyed, log>>

State ==
    [retries_ |-> retries_, request_count_ |-> request_count_,
     request_ |-> request_, request_span_ |-> request_span_,
     str_body_ |-> str_body_, max_retries |-> max_retries, sends |-> sends,
     outstanding |-> outstanding, cancels |-> cancels, spans |-> spans,
     done |-> done, deferred |-> deferred, destroyed |-> destroyed,
     log |-> log]

Commit(s) ==
    /\ retries_' = s.retries_
    /\ request_count_' = s.request_count_
    /\ request_' = s.request_
    /\ request_span_' = s.request_span_
    /\ str_body_' = s.str_body_
    /\ max_retries' = s.max_retries
    /\ sends' = s.sends
    /\ outstanding' = s.outstanding
    /\ cancels' = s.cancels
    /\ spans' = s.spans
    /\ done' = s.done
    /\ deferred' = s.deferred
    /\ destroyed' = s.destroyed
    /\ log' = s.log

Record(s, e) == [s EXCEPT !.log = Append(@, e)]

\* ------------------------------------------------------------ collaborators
\* Span::setTag on the span request_span_ points to.
setTag(s, key, value) ==
    Record([s EXCEPT !.spans[s.request_span_].tags = Append(@, <<key, value>>)],
           [ev |-> "setTag", span |-> s.request_span_, key |-> key, value |-> value])

\* Span::finishSpan on the span request_span_ points to.
finishSpan(s) ==
    Record([s EXCEPT !.spans[s.request_span_].finished = @ + 1],
           [ev |-> "finishSpan", span |-> s.request_span_])

\* parent_span_.spawnChild: a new span, owned by request_span_.
spawnChild(s, name) ==
    Record([s EXCEPT !.spans = Append(@, [name |-> name, tags |-> <<>>, finished |-> 0]),
                     !.request_span_ = Len(s.spans) + 1],
           [ev |-> "spawnChild", span |-> Len(s.spans) + 1, name |-> name])

\* on_done_(status, body)
on_done_(s, status, body) ==
    Record([s EXCEPT !.done = Append(@, [status |-> status, body |-> body])],
           [ev |-> "on_done", status |-> status, body |-> body])

\* AsyncClient::send: the message is recorded, the returned handle is stored
\* in request_ and stays outstanding until the client completes or cancels it.
send(s, message) ==
    Record([s EXCEPT !.sends = Append(@, message),
                     !.outstanding = @ \cup {Len(s.sends) + 1},
                     !.request_ = Len(s.sends) + 1],
           [ev |-> "send", handle |-> Len(s.sends) + 1, stored |-> s.request_])

\* Request::cancel on the stored handle: the client drops the request and
\* delivers no callback for it.
requestCancel(s) ==
    Record([s EXCEPT !.cancels = Append(@, s.request_),
                     !.outstanding = @ \ {s.request_}],
           [ev |-> "requestCancel", handle |-> s.request_])

\* ------------------------------------------------------------ HttpCallImpl
reset(s) == [s EXCEPT !.request_ = NullRequest]

deferredDelete(s) ==
    Record([s EXCEPT !.deferred = @ + 1], [ev |-> "deferredDelete"])

\* prepareHeaders putting the bare token in the Authorization header.
prepareHeaders_TokenWithoutScheme(s, token) ==
    [path |-> Path, host |-> Host, method |-> "POST", body |-> s.str_body_,
     content_length |-> Len(s.str_body_),
     authorization |-> token,
     content_type |-> KApplicationProto]

prepareHeaders(s, token) ==
    [path |-> Path, host |-> Host, method |-> "POST", body |-> s.str_body_,
     content_length |-> Len(s.str_body_),
     authorization |-> "Bearer " \o token,
     content_type |-> KApplicationProto]

\* spanName numbering a retry by the attempt, not by the retries before it.
spanName_NumberedByAttempt(count) ==
    IF count = 1 THEN TraceOperationName
    ELSE TraceOperationName \o " - Retry " \o ToString(count)

spanName(count) ==
    IF count = 1 THEN TraceOperationName
    ELSE TraceOperationName \o " - Retry " \o ToString(count - 1)

\* makeOneCall without the test for the empty token.
makeOneCall_NoTokenCheck(s0, token) ==
    LET s1 == [s0 EXCEPT !.request_count_ = @ + 1]
        s2 == Record(s1, [ev |-> "token_fn", token |-> token])
        s3 == spawnChild(s2, spanName(s2.request_count_))
        s4 == setTag(s3, "Component", "Proxy")
        s5 == setTag(s4, "UpstreamCluster", Cluster)
        s6 == setTag(s5, "HttpUrl", Uri)
        s7 == setTag(s6, "HttpMethod", "POST")
    IN  send(s7, prepareHeaders(s7, token))

\* makeOneCall testing the token only after the span was spawned.
makeOneCall_SpanBeforeTokenCheck(s0, token) ==
    LET s1 == [s0 EXCEPT !.request_count_ = @ + 1]
        s2 == Record(s1, [ev |-> "token_fn", token |-> token])
        s3 == spawnChild(s2, spanName(s2.request_count_))
        s4 == setTag(s3, "Component", "Proxy")
        s5 == setTag(s4, "UpstreamCluster", Cluster)
        s6 == setTag(s5, "HttpUrl", Uri)
        s7 == setTag(s6, "HttpMethod", "POST")
    IN  IF token = ""
        THEN on_done_(s7, StatusMissingToken, "")
        ELSE send(s7, prepareHeaders(s7, token))

makeOneCall(s0, token) ==
    LET s1 == [s0 EXCEPT !.request_count_ = @ + 1]
        s2 == Record(s1, [ev |-> "token_fn", token |-> token])
    IN  IF token = ""
        THEN on_done_(s2, StatusMissingToken, "")
        ELSE LET s3 == spawnChild(s2, spanName(s2.request_count_))
                 s4 == setTag(s3, "Component", "Proxy")
                 s5 == setTag(s4, "UpstreamCluster", Cluster)
                 s6 == setTag(s5, "HttpUrl", Uri)
                 s7 == setTag(s6, "HttpMethod", "POST")
             IN  send(s7, prepareHeaders(s7, token))

\* attemptRetry without the client-error test.
attemptRetry_NoClientErrorBand(s, status_code, token) ==
    IF UnsignedLeqZero(s.retries_)
    THEN [retried |-> FALSE, s |-> s]
    ELSE [retried |-> TRUE,
          s |-> makeOneCall(reset([s EXCEPT !.retries_ = @ - 1]), token)]

\* attemptRetry giving up one retry early.
attemptRetry_OffByOne(s, status_code, token) ==
    IF status_code >= ClientErrorLow /\ status_code < ClientErrorHigh
    THEN [retried |-> FALSE, s |-> s]
    ELSE IF s.retries_ <= 1
    THEN [retried |-> FALSE, s |-> s]
    ELSE [retried |-> TRUE,
          s |-> makeOneCall(reset([s EXCEPT !.retries_ = @ - 1]), token)]

\* attemptRetry without reset() before the next attempt.
attemptRetry_NoReset(s, status_code, token) ==
    IF status_code >= ClientErrorLow /\ status_code < ClientErrorHigh
    THEN [retried |-> FALSE, s |-> s]
    ELSE IF UnsignedLeqZero(s.retries_)
    THEN [retried |-> FALSE, s |-> s]
    ELSE [retried |-> TRUE,
          s |-> makeOneCall([s EXCEPT !.retries_ = @ - 1], token)]

\* attemptRetry without the test of the remaining budget.
attemptRetry_NoBudgetTest(s, status_code, token) ==
    IF status_code >= ClientErrorLow /\ status_code < ClientErrorHigh
    THEN [retried |-> FALSE, s |-> s]
    ELSE [retried |-> TRUE,
          s |-> makeOneCall(reset([s EXCEPT !.retries_ = @ - 1]), token)]

\* The result is the returned bool and the state the call leaves.
attemptRetry(s, status_code, token) ==
    IF status_code >= ClientErrorLow /\ status_code < ClientErrorHigh
    THEN [retried |-> FALSE, s |-> s]
    ELSE IF UnsignedLeqZero(s.retries_)
    THEN [retried |-> FALSE, s |-> s]
    ELSE [retried |-> TRUE,
          s |-> makeOneCall(reset([s EXCEPT !.retries_ = @ - 1]), token)]

\* response->body() linearized into a string; no body gives the empty string.
bodyString(response) ==
    IF response.body # <<>> THEN response.body[1] ELSE ""

\* onSuccess taking every status below the client-error band for a success.
onSuccess_SuccessBelowClientError(s0, response, token) ==
    LET status_code == response.status
        s1 == setTag(s0, "HttpStatusCode", ToString(status_code))
        s2 == finishSpan(s1)
        body == bodyString(response)
    IN  IF status_code < ClientErrorLow
        THEN deferredDelete(reset(on_done_(s2, StatusOK, body)))
        ELSE LET r == attemptRetry(s2, status_code, token)
             IN  IF r.retried
                 THEN r.s
                 ELSE deferredDelete(reset(on_done_(s2, StatusFailedCall, body)))

\* onSuccess reporting a success before it finishes the span.
onSuccess_ReportsBeforeFinish(s0, response, token) ==
    LET status_code == response.status
        s1 == setTag(s0, "HttpStatusCode", ToString(status_code))
        s2 == finishSpan(s1)
        body == bodyString(response)
    IN  IF status_code = HttpOK
        THEN deferredDelete(reset(finishSpan(on_done_(s1, StatusOK, body))))
        ELSE LET r == attemptRetry(s2, status_code, token)
             IN  IF r.retried
                 THEN r.s
                 ELSE deferredDelete(reset(on_done_(s2, StatusFailedCall, body)))

\* onSuccess without the return after a retry was started.
onSuccess_NoReturnAfterRetry(s0, response, token) ==
    LET status_code == response.status
        s1 == setTag(s0, "HttpStatusCode", ToString(status_code))
        s2 == finishSpan(s1)
        body == bodyString(response)
    IN  IF status_code = HttpOK
        THEN deferredDelete(reset(on_done_(s2, StatusOK, body)))
        ELSE deferredDelete(reset(on_done_(attemptRetry(s2, status_code, token).s,
                                           StatusFailedCall, body)))

\* onSuccess reporting success without the response body.
onSuccess_DropsBody(s0, response, token) ==
    LET status_code == response.status
        s1 == setTag(s0, "HttpStatusCode", ToString(status_code))
        s2 == finishSpan(s1)
        body == bodyString(response)
    IN  IF status_code = HttpOK
        THEN deferredDelete(reset(on_done_(s2, StatusOK, "")))
        ELSE LET r == attemptRetry(s2, status_code, token)
             IN  IF r.retried
                 THEN r.s
                 ELSE deferredDelete(reset(on_done_(s2, StatusFailedCall, body)))

onSuccess(s0, response, token) ==
    LET status_code == response.status
        s1 == setTag(s0, "HttpStatusCode", ToString(status_code))
        s2 == finishSpan(s1)
        body == bodyString(response)
    IN  IF status_code = HttpOK
        THEN deferredDelete(reset(on_done_(s2, StatusOK, body)))
        ELSE LET r == attemptRetry(s2, status_code, token)
             IN  IF r.retried
                 THEN r.s
                 ELSE deferredDelete(reset(on_done_(s2, StatusFailedCall, body)))

\* onFailure evaluating the retry with a client-error status.
onFailure_ClientErrorStatus(s0, reason, token) ==
    LET s1 == IF reason = "Reset"
              THEN setTag(s0, "Error", "the stream has been reset")
              ELSE setTag(s0, "Error", "unknown network error")
        s2 == finishSpan(s1)
        r == attemptRetry(s2, 404, token)
    IN  IF r.retried
        THEN r.s
        ELSE deferredDelete(reset(on_done_(s2, StatusFailedCall, "")))

\* onFailure reporting nothing when the failure is not retried.
onFailure_DropsFinalReport(s0, reason, token) ==
    LET s1 == IF reason = "Reset"
              THEN setTag(s0, "Error", "the stream has been reset")
              ELSE setTag(s0, "Error", "unknown network error")
        s2 == finishSpan(s1)
        r == attemptRetry(s2, 0, token)
    IN  IF r.retried
        THEN r.s
        ELSE reset(s2)

onFailure(s0, reason, token) ==
    LET s1 == IF reason = "Reset"
              THEN setTag(s0, "Error", "the stream has been reset")
              ELSE setTag(s0, "Error", "unknown network error")
        s2 == finishSpan(s1)
        r == attemptRetry(s2, 0, token)
    IN  IF r.retried
        THEN r.s
        ELSE deferredDelete(reset(on_done_(s2, StatusFailedCall, "")))

\* cancel without telling the async client to cancel the request.
cancel_NoRequestCancel(s0) ==
    LET s1 == IF s0.request_span_ # NullSpan
              THEN finishSpan(setTag(s0, "Error", "Canceled"))
              ELSE s0
        s2 == IF s1.request_ # NullRequest
              THEN reset(s1)
              ELSE s1
    IN  deferredDelete(s2)

\* cancel leaving the span untouched.
cancel_SpanUntouched(s0) ==
    LET s2 == IF s0.request_ # NullRequest
              THEN reset(requestCancel(s0))
              ELSE s0
    IN  deferredDelete(s2)

cancel(s0) ==
    LET s1 == IF s0.request_span_ # NullSpan
              THEN finishSpan(setTag(s0, "Error", "Canceled"))
              ELSE s0
        s2 == IF s1.request_ # NullRequest
              THEN reset(requestCancel(s1))
              ELSE s1
    IN  deferredDelete(s2)

\* ----------------------------------------------------------------- history
Events(kind) == {i \in 1..Len(log) : log[i].ev = kind}
Called == Events("call") # {}
Cancelled == Events("cancel") # {}

\* ------------------------------------------------------------------ actions
\* HttpCallImpl's constructor, for every configured retry count and body.
Init ==
    /\ max_retries \in 0..MaxRetries
    /\ retries_ = max_retries
    /\ request_count_ = 0
    /\ request_ = NullRequest
    /\ request_span_ = NullSpan
    /\ str_body_ \in RequestBodies
    /\ sends = <<>>
    /\ outstanding = {}
    /\ cancels = <<>>
    /\ spans = <<>>
    /\ done = <<>>
    /\ deferred = 0
    /\ destroyed = FALSE
    /\ log = <<>>

\* call() starts the call: the caller invokes it once, on the instance it
\* got from create(), before it cancels and before the instance is deleted.
OwnerHoldsHandle == ~destroyed /\ ~Cancelled /\ done = <<>>

\* cancel() may be invoked at any time before on_done fires, as long as the
\* instance exists; nothing in the interface limits it to one invocation.
CallerMayCancel ==
    /\ ~destroyed
    /\ done = <<>>
    /\ Cardinality(Events("cancel")) < MaxCancels

\* call()
Call ==
    /\ OwnerHoldsHandle
    /\ ~Called
    /\ \E token \in Tokens :
         Commit(Record(makeOneCall(Record(State, [ev |-> "call"]), token),
                       [ev |-> "return"]))

\* The async client completes the outstanding request with a response.
OnSuccess ==
    \E handle \in outstanding, response \in Responses, token \in Tokens :
      Commit(Record(onSuccess(Record([State EXCEPT !.outstanding = @ \ {handle}],
                                     [ev |-> "onSuccess", handle |-> handle,
                                      response |-> response]),
                              response, token),
                    [ev |-> "return"]))

\* The async client completes the outstanding request with a failure.
OnFailure ==
    \E handle \in outstanding, reason \in Reasons, token \in Tokens :
      Commit(Record(onFailure(Record([State EXCEPT !.outstanding = @ \ {handle}],
                                     [ev |-> "onFailure", handle |-> handle,
                                      reason |-> reason]),
                              reason, token),
                    [ev |-> "return"]))

\* cancel()
Cancel ==
    /\ CallerMayCancel
    /\ Commit(Record(cancel(Record(State, [ev |-> "cancel"])), [ev |-> "return"]))

\* The dispatcher runs the deferred deletion.  With the instance queued more
\* than once the dispatcher deletes it again; the history ends at the first
\* deletion.
Destroy ==
    /\ deferred > 0
    /\ ~destroyed
    /\ destroyed' = TRUE
    /\ UNCHANGED <<retries_, request_count_, request_, request_span_, str_body_,
                   max_retries, sends, outstanding, cancels, spans, done,
                   deferred, log>>

Next == Call \/ OnSuccess \/ OnFailure \/ Cancel \/ Destroy

Spec == Init /\ [][Next]_vars

\* ------------------------------------------------------- reading the history
\* The handler a step runs: every handler's first effect is its own entry.
Entered(kind) == Len(log') > Len(log) /\ log'[Len(log) + 1].ev = kind
Entry == log'[Len(log) + 1]

\* The tokens token_fn_ returned, in order.
TokenEvents == Events("token_fn")
\* The transport outcomes delivered, in order of delivery.
OutcomeEvents == Events("onSuccess") \cup Events("onFailure")
Last(S) == CHOOSE i \in S : \A j \in S : j <= i
\* The body a transport outcome hands to on_done_.
OutcomeBody(e) == IF e.ev = "onSuccess" THEN bodyString(e.response) ELSE ""
\* A response with status >= 500, or a transport failure.
ServerOrTransportFailure(e) ==
    \/ e.ev = "onFailure"
    \/ e.ev = "onSuccess" /\ e.response.status >= 500

\* ------------------------------------------------------------------- claims

\* C1: on_done is invoked at most once for a logical call; and when cancel()
\* is never called, it has been invoked exactly once whenever call() has run
\* and no attempt is outstanding, however many attempts there were.
C1_OnDoneExactlyOnce ==
    /\ Len(done) <= 1
    /\ (Called /\ ~Cancelled /\ outstanding = {}) => Len(done) = 1

\* C1 witness: a call that ended after three attempts, never cancelled.
C1_Witness ==
    /\ Len(done) = 1
    /\ Len(sends) = 3
    /\ ~Cancelled
    /\ outstanding = {}

\* C2 (as amended): when token_fn_ returns the empty string at call(),
\* on_done is invoked exactly once, inside call(), with the INTERNAL error
\* whose message is "Missing access token for service control call" (the same
\* error code as a failed response, a different message) and an empty body; no
\* span is spawned and nothing is sent, for every configured retry count.
C2_EmptyTokenAtCall ==
    (Called /\ log[2].token = "") =>
        /\ done = <<[status |-> StatusMissingToken, body |-> ""]>>
        /\ done[1].status.code = "INTERNAL"
        /\ done[1].status.code = StatusFailedCall.code
        /\ done[1].status # StatusFailedCall
        /\ log = <<[ev |-> "call"], [ev |-> "token_fn", token |-> ""],
                   [ev |-> "on_done", status |-> StatusMissingToken, body |-> ""],
                   [ev |-> "return"]>>
        /\ spans = <<>>
        /\ sends = <<>>
        /\ retries_ = max_retries

\* C2 witness: call() found no token on an instance configured with retries.
C2_Witness ==
    /\ Called
    /\ log[2].token = ""
    /\ max_retries = MaxRetries
    /\ Len(done) = 1

\* C2 as stated: the error reported for the empty token is of a kind distinct
\* from the internal-class error used for failed responses.
C2_AuthClassError ==
    (Called /\ log[2].token = "") =>
        /\ Len(done) = 1
        /\ done[1].body = ""
        /\ done[1].status.code # StatusFailedCall.code
        /\ spans = <<>>
        /\ sends = <<>>

\* C3: a response with status in [400, 500) is never retried, whatever the
\* remaining budget: nothing is sent, no span is spawned, retries_ keeps its
\* value, and on_done receives the INTERNAL "Failed to call service control"
\* error with that response's body.
C3_ClientErrorNotRetried ==
    [][(/\ Entered("onSuccess")
        /\ Entry.response.status >= 400
        /\ Entry.response.status < 500)
       => /\ sends' = sends
          /\ Len(spans') = Len(spans)
          /\ retries_' = retries_
          /\ done' = Append(done, [status |-> StatusFailedCall,
                                   body |-> bodyString(Entry.response)])]_vars

\* C3 witness: a 4xx response with a body arrived while budget remained.
C3_Witness ==
    /\ OutcomeEvents # {}
    /\ LET e == log[Last(OutcomeEvents)]
       IN  /\ e.ev = "onSuccess"
           /\ e.response.status \in {400, 499}
           /\ e.response.body # <<>>
    /\ retries_ > 0
    /\ Len(done) = 1

\* C4: with a non-empty token on every attempt, the sends of one call never
\* exceed max_retries + 1; when every attempt ended in a status >= 500 or a
\* transport failure and on_done has fired, there were exactly
\* max_retries + 1 sends and on_done received the INTERNAL error with the body
\* of the last attempt (empty for a transport failure).
C4_RetriedUpToMaximum ==
    (\A i \in TokenEvents : log[i].token # "") =>
        /\ Len(sends) <= max_retries + 1
        /\ (/\ done # <<>>
            /\ \A i \in OutcomeEvents : ServerOrTransportFailure(log[i]))
           => /\ Len(sends) = max_retries + 1
              /\ Cardinality(OutcomeEvents) = max_retries + 1
              /\ retries_ = 0
              /\ done = <<[status |-> StatusFailedCall,
                           body |-> OutcomeBody(log[Last(OutcomeEvents)])]>>

\* C4 witness: the largest budget was used up by failures, the last of them a
\* 5xx response with a body.
C4_Witness ==
    /\ max_retries = MaxRetries
    /\ done # <<>>
    /\ OutcomeEvents # {}
    /\ \A i \in OutcomeEvents : ServerOrTransportFailure(log[i])
    /\ \A i \in TokenEvents : log[i].token # ""
    /\ log[Last(OutcomeEvents)].ev = "onSuccess"
    /\ log[Last(OutcomeEvents)].response.body # <<>>
    /\ Len(sends) = MaxRetries + 1

C6_CancelStep ==
    (Entered("cancel") /\ request_ # NullRequest)
    => /\ cancels' = Append(cancels, request_)
       /\ request_ \notin outstanding'
       /\ request_' = NullRequest
       /\ spans'[request_span_].finished = spans[request_span_].finished + 1
       /\ spans'[request_span_].tags =
              Append(spans[request_span_].tags, <<"Error", "Canceled">>)
       /\ Len(spans') = Len(spans)
       /\ deferred' = deferred + 1
       /\ sends' = sends
       /\ done' = done

C6_AfterCancel ==
    (Cancelled /\ cancels # <<>>)
    => /\ done = <<>>
       /\ Len(cancels) = 1
       /\ spans[request_span_].finished >= 1
       /\ \A i \in Events("send") : i < Last(Events("cancel"))
       /\ outstanding = {}

C6_CancelWhileOutstanding == [][C6_CancelStep]_vars /\ []C6_AfterCancel

\* C6 witness: cancel() arrived while a retry attempt was outstanding.
C6_Witness ==
    /\ Cancelled
    /\ cancels = <<2>>
    /\ Len(sends) = 2
    /\ deferred = 1

\* C7: on every path that reports the final on_done the instance has
\* scheduled its deferred deletion by the end of the handler, after on_done.
C7_DisposalAfterOnDone ==
    done # <<>>
    => /\ deferred >= 1
       /\ \E i \in Events("on_done"), j \in Events("deferredDelete") : i < j

\* C8: attempts are strictly sequential: at most one request is outstanding,
\* every send happened with request_ cleared, and between handlers request_
\* holds a handle exactly when that request is outstanding.
C8_OneAttemptInFlight ==
    /\ Cardinality(outstanding) <= 1
    /\ outstanding = (IF request_ = NullRequest THEN {} ELSE {request_})
    /\ \A i \in Events("send") : log[i].stored = NullRequest

\* C8 witness: a retry attempt is outstanding.
C8_Witness ==
    /\ Len(sends) >= 2
    /\ request_ = Len(sends)
    /\ request_ \in outstanding

\* C9: when the token fetched for a retry attempt is empty, on_done is invoked
\* exactly once, with the missing-token error and an empty body; that attempt
\* spawns no span and sends nothing, and no attempt follows it.
C9_EmptyTokenAtRetry ==
    \A i \in TokenEvents :
      (log[i].token = "" /\ i # 2)
      => /\ i = Last(TokenEvents)
         /\ done = <<[status |-> StatusMissingToken, body |-> ""]>>
         /\ Len(sends) = Cardinality(TokenEvents) - 1
         /\ Len(spans) = Cardinality(TokenEvents) - 1
         /\ \A j \in Events("send") \cup Events("spawnChild") : j < i
         /\ log[i + 1].ev = "on_done"
         /\ outstanding = {}
         /\ request_ = NullRequest

\* C9 witness: the second retry found no token.
C9_Witness ==
    /\ Cardinality(TokenEvents) = 3
    /\ log[Last(TokenEvents)].token = ""
    /\ Len(sends) = 2

\* C10: a response with status 200, on any attempt, gives on_done(OK, that
\* response's body) and no retry whatever the budget; the attempt's span is
\* finished once and tagged with status "200"; on the first attempt there is
\* one send and one span.
C10_SuccessStep ==
    (Entered("onSuccess") /\ Entry.response.status = 200)
    => /\ done' = Append(done, [status |-> StatusOK,
                                body |-> bodyString(Entry.response)])
       /\ sends' = sends
       /\ retries_' = retries_
       /\ Len(spans') = Len(spans)
       /\ spans'[request_span_].finished = 1
       /\ spans'[request_span_].tags =
              Append(spans[request_span_].tags, <<"HttpStatusCode", "200">>)
       /\ (request_count_ = 1 => (Len(sends') = 1 /\ Len(spans') = 1))

C10_SuccessOn200 == [][C10_SuccessStep]_vars

\* C10 witness: a retry attempt got 200 with a body while budget remained.
C10_Witness ==
    /\ Len(done) = 1
    /\ done[1].status = StatusOK
    /\ done[1].body # ""
    /\ retries_ > 0
    /\ Len(sends) >= 2

\* The attempt (1, 2, ...) during which the effect at position i happened.
AttemptOf(i) == Cardinality({j \in TokenEvents : j <= i})
IsOutcome(e) == e.ev \in {"onSuccess", "onFailure"}
\* The transport outcomes as a sequence.
Outcomes == SelectSeq(log, IsOutcome)

\* C11: the span spawned for attempt 1 is named exactly the operation name
\* and the span spawned for attempt n > 1 is named "<op> - Retry <n-1>"; with
\* max_retries = 2 and responses 5xx, 5xx, 200 the spans are "op",
\* "op - Retry 1", "op - Retry 2" in that order, with three sends and a final
\* success carrying the third body.
C11_SpanNaming ==
    /\ \A i \in Events("spawnChild") :
         LET n == AttemptOf(i)
         IN  /\ log[i].span = n
             /\ spans[log[i].span].name = log[i].name
             /\ n = 1 => log[i].name = "op"
             /\ n = 2 => log[i].name = "op - Retry 1"
             /\ n = 3 => log[i].name = "op - Retry 2"
             /\ n > 1 => log[i].name = "op" \o " - Retry " \o ToString(n - 1)
    /\ max_retries = 2 =>
         LET o == Outcomes
         IN  (/\ Len(o) = 3
              /\ \A k \in 1..3 : o[k].ev = "onSuccess"
              /\ o[1].response.status = 500
              /\ o[2].response.status = 500
              /\ o[3].response.status = 200)
             => /\ Len(sends) = 3
                /\ [k \in 1..3 |-> spans[k].name] =
                       <<"op", "op - Retry 1", "op - Retry 2">>
                /\ done = <<[status |-> StatusOK,
                             body |-> bodyString(o[3].response)]>>

\* C11 witness: the scenario 5xx, 5xx, 200 with two retries configured.
C11_Witness ==
    /\ max_retries = 2
    /\ Len(Outcomes) = 3
    /\ \A k \in 1..3 : Outcomes[k].ev = "onSuccess"
    /\ Outcomes[1].response.status = 500
    /\ Outcomes[2].response.status = 500
    /\ Outcomes[3].response.status = 200
    /\ Outcomes[3].response.body = <<"b2">>
    /\ Len(spans) = 3

\* C12: cancel() with no attempt outstanding invokes no transport cancel and
\* touches no span, but schedules the deferred deletion; no attempt is
\* started after a cancel().
C12_CancelStep ==
    /\ (Entered("cancel") /\ request_ = NullRequest)
       => /\ cancels' = cancels
          /\ spans' = spans
          /\ deferred' = deferred + 1
          /\ sends' = sends
          /\ done' = done
    /\ Cancelled => sends' = sends

C12_CancelWithNothingOutstanding == [][C12_CancelStep]_vars

\* The transport delivers one outcome for every request it has outstanding.
TransportDelivers == WF_vars(OnSuccess \/ OnFailure)
\* The request body plays no part in how a call ends: one body is enough.
LiveInit == Init /\ str_body_ = "req"
LiveSpec == LiveInit /\ [][Next]_vars /\ TransportDelivers

\* C13: provided the transport delivers an outcome for every request that is
\* not cancelled, a call started with call() terminates: on_done is
\* reported or the call has been cancelled.
C13_CallTerminates == Called ~> (done # <<>> \/ Cancelled)

\* C13 witness: a call that went through every configured retry before it
\* reported on_done.
C13_Witness ==
    /\ Called
    /\ ~Cancelled
    /\ max_retries = MaxRetries
    /\ Len(sends) = MaxRetries + 1
    /\ done # <<>>

\* The retries started so far: the attempts after the first.
RetriesStarted == IF Called THEN Cardinality(TokenEvents) - 1 ELSE 0

\* C14: the remaining retry budget is never negative (never wrapped below
\* zero), it is the configured count less one for every retry started, and
\* nothing else changes it; so a retry starts only from a positive budget.
C14_RetryBudget ==
    /\ retries_ >= 0
    /\ retries_ <= max_retries
    /\ retries_ = max_retries - RetriesStarted

\* C14 witness: the whole budget was spent on retries.
C14_Witness ==
    /\ max_retries = MaxRetries
    /\ retries_ = 0
    /\ RetriesStarted = MaxRetries

\* C15: a transport failure is evaluated for retry with status 0: the span is
\* tagged with the error and finished, then, while the budget is positive,
\* the next attempt is started (the budget decremented, the token fetched);
\* with the budget at zero on_done receives the INTERNAL error and an empty
\* body.
C15_FailureStep ==
    Entered("onFailure")
    => LET n == Len(log)
           sp == request_span_
       IN  /\ log'[n + 2] =
                [ev |-> "setTag", span |-> sp, key |-> "Error",
                 value |-> IF Entry.reason = "Reset"
                           THEN "the stream has been reset"
                           ELSE "unknown network error"]
           /\ log'[n + 3] = [ev |-> "finishSpan", span |-> sp]
           /\ spans'[sp].finished = spans[sp].finished + 1
           /\ IF retries_ > 0
              THEN /\ retries_' = retries_ - 1
                   /\ request_count_' = request_count_ + 1
                   /\ log'[n + 4].ev = "token_fn"
                   /\ IF log'[n + 4].token = ""
                      THEN /\ sends' = sends
                           /\ done' = Append(done, [status |-> StatusMissingToken,
                                                    body |-> ""])
                      ELSE /\ Len(sends') = Len(sends) + 1
                           /\ done' = done
              ELSE /\ log'[n + 4] = [ev |-> "on_done", status |-> StatusFailedCall,
                                     body |-> ""]
                   /\ done' = Append(done, [status |-> StatusFailedCall, body |-> ""])
                   /\ sends' = sends
                   /\ retries_' = retries_

C15_TransportFailure == [][C15_FailureStep]_vars

\* C15 witness: every attempt of a call with retries ended in a transport
\* failure and the last one was reported.
C15_Witness ==
    /\ max_retries = MaxRetries
    /\ Len(Outcomes) = MaxRetries + 1
    /\ \A k \in 1..Len(Outcomes) : Outcomes[k].ev = "onFailure"
    /\ done = <<[status |-> StatusFailedCall, body |-> ""]>>

\* C16: a response whose status is not 200 and lies outside [400, 500) is a
\* failure evaluated for retry: with a positive budget the next attempt is
\* started, otherwise on_done receives the INTERNAL error with that
\* response's body; only a 200 response gives the OK status.
C16_OtherStatusStep ==
    (/\ Entered("onSuccess")
     /\ Entry.response.status # 200
     /\ ~(Entry.response.status >= 400 /\ Entry.response.status < 500))
    => LET n == Len(log)
       IN  IF retries_ > 0
           THEN /\ retries_' = retries_ - 1
                /\ request_count_' = request_count_ + 1
                /\ log'[n + 4].ev = "token_fn"
                /\ IF log'[n + 4].token = ""
                   THEN /\ sends' = sends
                        /\ done' = Append(done, [status |-> StatusMissingToken,
                                                 body |-> ""])
                   ELSE /\ Len(sends') = Len(sends) + 1
                        /\ done' = done
           ELSE /\ done' = Append(done, [status |-> StatusFailedCall,
                                         body |-> bodyString(Entry.response)])
                /\ sends' = sends
                /\ retries_' = retries_

C16_OnlyOkSucceeds ==
    \A k \in 1..Len(done) :
      done[k].status = StatusOK
      => /\ Outcomes # <<>>
         /\ Outcomes[Len(Outcomes)].ev = "onSuccess"
         /\ Outcomes[Len(Outcomes)].response.status = 200

C16_OtherStatusIsFailure == [][C16_OtherStatusStep]_vars /\ []C16_OnlyOkSucceeds

\* C16 witness: a 399 was retried and the 500 that followed, with the budget
\* spent, was reported with its body.
C16_Witness ==
    /\ max_retries = 1
    /\ Len(Outcomes) = 2
    /\ Outcomes[1].ev = "onSuccess"
    /\ Outcomes[1].response.status = 399
    /\ Outcomes[2].ev = "onSuccess"
    /\ Outcomes[2].response.status = 500
    /\ done = <<[status |-> StatusFailedCall, body |-> "b1"]>>

\* The entry of the handler during which the effect at position j happened.
HandlerOf(j) ==
    Last({i \in 1..j : log[i].ev \in {"call", "cancel", "onSuccess", "onFailure"}})

\* C17: in the handling of one attempt outcome the span is tagged and
\* finished first, then the next attempt is started or on_done is invoked,
\* and the deferred deletion is scheduled only after on_done, as the handler's
\* last effect; the span of attempt k is finished before the span of attempt
\* k+1 is spawned.
C17_OrderOfEffects ==
    /\ \A i \in OutcomeEvents :
         /\ log[i + 1].ev = "setTag"
         /\ log[i + 1].span = log[i].handle
         /\ log[i + 2].ev = "finishSpan"
         /\ log[i + 2].span = log[i].handle
         /\ log[i + 3].ev \in {"token_fn", "on_done"}
         /\ (log[i + 3].ev = "token_fn" /\ log[i + 3].token # "")
            => /\ log[i + 4].ev = "spawnChild"
               /\ log[i + 9].ev = "send"
               /\ log[i + 10].ev = "return"
    /\ \A j \in Events("deferredDelete") :
         /\ log[j + 1].ev = "return"
         /\ log[j - 1].ev # "on_done"
            => /\ log[HandlerOf(j)].ev = "cancel"
               /\ \A i \in HandlerOf(j)..j : log[i].ev # "on_done"
    /\ \A i \in Events("spawnChild") :
         log[i].span > 1
         => \E j \in Events("finishSpan") : j < i /\ log[j].span = log[i].span - 1

\* C17 witness: a failed attempt was followed by an attempt that succeeded.
C17_Witness ==
    /\ Len(Outcomes) = 2
    /\ Outcomes[1].ev = "onFailure"
    /\ Outcomes[2].ev = "onSuccess"
    /\ done = <<[status |-> StatusOK, body |-> "b1"]>>
    /\ deferred = 1

IsTokenFetch(e) == e.ev = "token_fn"
\* The values token_fn_ returned, one per attempt.
TokenSeq == SelectSeq(log, IsTokenFetch)

\* C18: every attempt of a call sends method POST and the same host, path and
\* body, the body being the unmodified str_body_ with Content-Length its
\* length; the Authorization of attempt k is "Bearer " followed by the token
\* fetched at the start of attempt k, and token_fn_ is invoked once per
\* attempt.
C18_SameRequestFreshToken ==
    LET fetched == TokenSeq
    IN
    /\ Len(fetched) = request_count_
    /\ Len(sends) <= Len(fetched)
    /\ \A k \in 1..Len(sends) :
         /\ sends[k].method = "POST"
         /\ sends[k].host = "host"
         /\ sends[k].path = "/path"
         /\ sends[k].body = str_body_
         /\ sends[k].body = sends[1].body
         /\ sends[k].content_length = Len(sends[k].body)
         /\ sends[k].body = "req" => sends[k].content_length = 3
         /\ sends[k].authorization = "Bearer " \o fetched[k].token
         /\ fetched[k].token = "t1" => sends[k].authorization = "Bearer t1"
         /\ fetched[k].token = "t2" => sends[k].authorization = "Bearer t2"

\* C18 witness: two attempts were sent with different tokens and a body.
C18_Witness ==
    /\ Len(sends) = 2
    /\ sends[1].authorization = "Bearer t2"
    /\ sends[2].authorization = "Bearer t1"
    /\ str_body_ = "req"

\* C19: as many spans are spawned as requests are sent, and every spawned
\* span is finished at most once, and exactly once when the call has
\* terminated (cancel() is only ever invoked before on_done fires).
C19_SpansFinishedOnce ==
    /\ Len(spans) = Len(sends)
    /\ \A k \in 1..Len(spans) :
         /\ spans[k].finished <= 1
         /\ (done # <<>> \/ Cancelled) => spans[k].finished = 1

\* C20: the deferred deletion of the instance is scheduled at most once,
\* also when cancel() is invoked more than once before on_done fires and
\* before the dispatcher runs the deletion.
C20_DisposalScheduledOnce == deferred <= 1

====
